---- MODULE Spec2Model ----
(***************************************************************************)
(* A model of tensorflow_io/core/kernels/hdf5_kernels.cc: the object graph *)
(* walk (HDF5Iterate), the catalog (HDF5ReadableResource::Init,            *)
(* Components, Spec), the region reader (HDF5ReadableResource::Read and    *)
(* HDF5ReadableReadOp::ResourceKernel) and the locking of the op kernels.  *)
(*                                                                         *)
(* Strings are sequences of one-character strings, so that the string      *)
(* concatenations of the code are sequence concatenations here.            *)
(***************************************************************************)
EXTENDS Integers, Sequences, FiniteSets, TLC

VARIABLES
  container, walker, whist,   \* the object graph walk
  typeIn, typeOut,            \* the classification of one storage type
  resource, initlog,          \* the catalog: HDF5ReadableResource
  readIn, readOut,            \* one read request and its outcome
  strIn, strOut,              \* the decoding of fixed-length strings
  mu, mu_, thread             \* the locks and the threads of the op kernels

walkVars == <<container, walker, whist>>

typeVars == <<typeIn, typeOut>>

catalogVars == <<resource, initlog>>

readVars == <<readIn, readOut>>

strVars == <<strIn, strOut>>

opVars == <<mu, mu_, thread>>

vars == <<walkVars, typeVars, catalogVars, readVars, strVars, opVars>>

(***************************************************************************)
(* Bounds of the model.                                                    *)
(***************************************************************************)
\* object addresses are 0..MaxAddr
MaxAddr == 2
\* number of links in a container, all groups together
MaxLinks == 3
\* members of a compound or enumeration type
MaxMembers == 3
\* the values of enumeration members are 0..MaxEnumValue
MaxEnumValue == 2
\* calls of Init on one catalog instance
MaxInits == 2
\* the rank of a dataset and of a requested shape
MaxRank == 2
\* the extent of a dimension
MaxDim == 1
\* the width of a fixed-length string field, in bytes
MaxWidth == 3
\* the number of elements of a string read
MaxElems == 2
\* op executions of one thread
MaxCalls == 2

(***************************************************************************)
(* Small helpers.                                                          *)
(***************************************************************************)
Range(s) == {s[i] : i \in DOMAIN s}

NoDuplicates(s) == \A i, j \in DOMAIN s : s[i] = s[j] => i = j

Count(s, x) == Cardinality({i \in DOMAIN s : s[i] = x})

(***************************************************************************)
(* The container: objects with an address and a type; a group holds links  *)
(* (name, target address) in the container's native order.                 *)
(***************************************************************************)
Addrs == 0 .. MaxAddr

\* the root group's address (file->getObjinfo(info); info.addr)
Root == 0

ObjTypes == {"H5O_TYPE_GROUP", "H5O_TYPE_DATASET", "H5O_TYPE_NAMED_DATATYPE"}

\* link names; a link name never holds a "/"
LinkNames == {<<"a">>, <<"b">>}

Links == [name : LinkNames, addr : Addrs]

\* the link lists a group can hold: names are unique within a group
LinkSeqs ==
  {s \in UNION {[1 .. n -> Links] : n \in 0 .. Cardinality(LinkNames)} :
     \A i, j \in DOMAIN s : s[i].name = s[j].name => i = j}

GroupsOf(ty) == {a \in Addrs : ty[a] = "H5O_TYPE_GROUP"}

\* the number of links the link lists ln give the groups a, a + 1, ...
RECURSIVE TotalLinks(_, _)
TotalLinks(ln, a) ==
  IF a > MaxAddr THEN 0
  ELSE (IF a \in DOMAIN ln THEN Len(ln[a]) ELSE 0) + TotalLinks(ln, a + 1)

\* the container whose objects have the types ty and whose groups hold the
\* link lists ln: only a group holds links
MakeContainer(ty, ln) ==
  [types |-> ty,
   links |-> [a \in Addrs |-> IF a \in DOMAIN ln THEN ln[a] ELSE <<>>]]

(***************************************************************************)
(* HDF5Iterate: the state of the walk and the callback Iterate.            *)
(*   groups_   : address -> path, of every group seen                      *)
(*   parent_   : the group whose links are being iterated                  *)
(*   datasets_ : the paths output so far                                   *)
(*   stack     : the H5Literate / H5Literate_by_name calls in progress,    *)
(*               innermost last: the group iterated (loc), the next link   *)
(*               (idx) and the parent saved by the callback that started   *)
(*               the iteration                                             *)
(***************************************************************************)
\* HDF5Iterate(root), followed by H5Literate(file->getId(), ...) of Init
NewWalker(root) ==
  [groups_   |-> (root :> <<>>),
   parent_   |-> root,
   datasets_ |-> <<>>,
   stack     |-> <<[loc |-> root, idx |-> 1, saved |-> root]>>]

Top(w) == w.stack[Len(w.stack)]

\* the link the callback is called with, when there is one
CurLink(c, w) == c.links[Top(w).loc][Top(w).idx]

AtLink(c, w) == w.stack # <<>> /\ Top(w).idx <= Len(c.links[Top(w).loc])

AtEnd(c, w) == w.stack # <<>> /\ Top(w).idx > Len(c.links[Top(w).loc])

\* p->groups_.find(iteminfo.addr) == p->groups_.end(), negated
GroupSeenNever(w, addr) == FALSE

GroupSeen(w, addr) == addr \in DOMAIN w.groups_

\* p->groups_[parent] + "/" + name
ChildPath(w, name) == w.groups_[w.parent_] \o <<"/">> \o name

\* the callback returns: the iteration goes on with the next link
NextLink(w) ==
  [w EXCEPT !.stack[Len(w.stack)].idx = @ + 1]

\* case H5O_TYPE_GROUP, not seen: record the path, move parent_, iterate it
EnterGroup(w, l) ==
  [w EXCEPT !.groups_ = (l.addr :> ChildPath(w, l.name)) @@ @,
            !.parent_ = l.addr,
            !.stack   = Append(@, [loc |-> l.addr, idx |-> 1,
                                   saved |-> w.parent_])]

\* case H5O_TYPE_DATASET
EmitDatasetIfNotSeen(w, l) ==
  IF l.addr \in DOMAIN w.groups_ THEN NextLink(w)
  ELSE NextLink([w EXCEPT !.groups_ = (l.addr :> ChildPath(w, l.name)) @@ @,
                          !.datasets_ = Append(@, ChildPath(w, l.name))])

EmitDataset(w, l) ==
  NextLink([w EXCEPT !.datasets_ = Append(@, ChildPath(w, l.name))])

\* an iteration has passed its last link: H5Literate_by_name returns to the
\* callback, which restores parent_ and returns; the outermost H5Literate
\* returns to Init
LeaveGroupKeepParent(w) ==
  IF Len(w.stack) = 1 THEN [w EXCEPT !.stack = <<>>]
  ELSE NextLink([w EXCEPT !.stack = SubSeq(@, 1, Len(@) - 1)])

LeaveGroup(w) ==
  IF Len(w.stack) = 1 THEN [w EXCEPT !.stack = <<>>]
  ELSE NextLink([w EXCEPT !.stack   = SubSeq(@, 1, Len(@) - 1),
                          !.parent_ = Top(w).saved])

\* one step of the walk: one call of Iterate, or one return of an iteration
IterateStep(c, w) ==
  IF AtEnd(c, w) THEN LeaveGroup(w)
  ELSE LET l == CurLink(c, w) IN
       CASE c.types[l.addr] = "H5O_TYPE_GROUP" ->
              IF GroupSeen(w, l.addr) THEN NextLink(w) ELSE EnterGroup(w, l)
         [] c.types[l.addr] = "H5O_TYPE_DATASET" -> EmitDataset(w, l)
         [] OTHER -> NextLink(w)

\* the whole of H5Literate(file->getId(), ..., HDF5Iterate::Iterate, &data)
RECURSIVE RunWalk(_, _)
RunWalk(c, w) == IF w.stack = <<>> THEN w ELSE RunWalk(c, IterateStep(c, w))

(***************************************************************************)
(* The walk as a state machine.  whist is the history of the walk: the     *)
(* groups entered, the dataset objects emitted and the number of calls of  *)
(* the callback.                                                           *)
(***************************************************************************)
NoContainer == [types |-> [a \in Addrs |-> "H5O_TYPE_GROUP"],
                links |-> [a \in Addrs |-> <<>>]]

WalkIdle ==
  /\ container = NoContainer
  /\ walker = [NewWalker(Root) EXCEPT !.stack = <<>>]
  /\ whist = [entered |-> <<>>, emitted |-> <<>>, calls |-> 0]

\* no status yet: the call has not been made
NoStatus == [code |-> "none", text |-> "", path |-> <<>>, names |-> <<>>, nums |-> <<>>]

NoType == [class |-> "none", size |-> 0, sign |-> FALSE, variable |-> FALSE,
           strpad |-> "H5T_STR_NULLTERM", members |-> <<>>]

NoOutcome == [status |-> NoStatus, dtype |-> "DT_INVALID"]

TypeIdle == typeIn = NoType /\ typeOut = NoOutcome

\* HDF5ReadableResource(env): no file, empty vectors, empty map
NewResource ==
  [filename_ |-> <<>>, file_image_ |-> "none", file |-> NoContainer,
   dtypes_ |-> <<>>, shapes_ |-> <<>>, columns_index_ |-> <<>>]

NoCall == [op |-> "none", arg |-> <<>>, status |-> NoStatus, paths |-> {},
           shape |-> <<>>, dtype |-> "DT_INVALID"]

NewInitLog == [inits |-> 0, status |-> NoStatus, before |-> NewResource,
               found |-> <<>>, call |-> NoCall, err |-> 0, failed |-> {}]

CatalogIdle == resource = NewResource /\ initlog = NewInitLog

NoRequest ==
  [via |-> "none", component |-> <<>>, start |-> <<>>, shape |-> <<>>,
   stop |-> <<>>, stopdims |-> 0, fault |-> "none", allocated |-> FALSE]

NoResult ==
  [status |-> NoStatus, raised |-> "none", escaped |-> FALSE, start |-> <<>>,
   shape |-> <<>>, built |-> FALSE, dims_start |-> <<>>, dims |-> <<>>,
   staging |-> "none", vlen |-> "none", value |-> 0, selected |-> 0,
   transferred |-> 0, returned |-> FALSE]

ReadIdle == readIn = NoRequest /\ readOut = NoResult

NoField == [size |-> 0, strpad |-> "none", buffer |-> <<>>, total |-> 0]

NoStrings == [status |-> NoStatus, values |-> <<>>]

StrIdle == strIn = NoField /\ strOut = NoStrings

NoThread == "none"

OpsIdle == mu = NoThread /\ mu_ = <<>> /\ thread = <<>>

InitWalk ==
  /\ TypeIdle /\ CatalogIdle /\ ReadIdle /\ StrIdle /\ OpsIdle
  /\ \E ty \in {t \in [Addrs -> ObjTypes] : t[Root] = "H5O_TYPE_GROUP"} :
       \E ln \in [GroupsOf(ty) -> LinkSeqs] :
          /\ TotalLinks(ln, 0) <= MaxLinks
          /\ container = MakeContainer(ty, ln)
  /\ walker = NewWalker(Root)
  /\ whist = [entered |-> <<>>, emitted |-> <<>>, calls |-> 0]

IterateNewGroup ==
  /\ AtLink(container, walker)
  /\ container.types[CurLink(container, walker).addr] = "H5O_TYPE_GROUP"
  /\ ~GroupSeen(walker, CurLink(container, walker).addr)
  /\ walker' = IterateStep(container, walker)
  /\ whist' = [whist EXCEPT !.entered = Append(@, CurLink(container, walker).addr),
                            !.calls = @ + 1]
  /\ UNCHANGED <<container, typeVars, catalogVars, readVars, strVars, opVars>>

IterateSeenGroup ==
  /\ AtLink(container, walker)
  /\ container.types[CurLink(container, walker).addr] = "H5O_TYPE_GROUP"
  /\ GroupSeen(walker, CurLink(container, walker).addr)
  /\ walker' = IterateStep(container, walker)
  /\ whist' = [whist EXCEPT !.calls = @ + 1]
  /\ UNCHANGED <<container, typeVars, catalogVars, readVars, strVars, opVars>>

IterateDataset ==
  /\ AtLink(container, walker)
  /\ container.types[CurLink(container, walker).addr] = "H5O_TYPE_DATASET"
  /\ walker' = IterateStep(container, walker)
  /\ whist' = [whist EXCEPT !.emitted =
                   IF Len(walker'.datasets_) > Len(walker.datasets_)
                   THEN Append(@, CurLink(container, walker).addr) ELSE @,
                            !.calls = @ + 1]
  /\ UNCHANGED <<container, typeVars, catalogVars, readVars, strVars, opVars>>

IterateOther ==
  /\ AtLink(container, walker)
  /\ container.types[CurLink(container, walker).addr] = "H5O_TYPE_NAMED_DATATYPE"
  /\ walker' = IterateStep(container, walker)
  /\ whist' = [whist EXCEPT !.calls = @ + 1]
  /\ UNCHANGED <<container, typeVars, catalogVars, readVars, strVars, opVars>>

IterateReturn ==
  /\ AtEnd(container, walker)
  /\ walker' = IterateStep(container, walker)
  /\ UNCHANGED <<container, whist, typeVars, catalogVars, readVars, strVars, opVars>>

NextWalk ==
  \/ IterateNewGroup
  \/ IterateSeenGroup
  \/ IterateDataset
  \/ IterateOther
  \/ IterateReturn

SpecWalk == InitWalk /\ [][NextWalk]_vars

WalkDone == walker.stack = <<>>

(***************************************************************************)
(* What the claims about the walk speak of.                                *)
(***************************************************************************)
\* the links of the container, as (group, position) pairs
LinkPlaces(c) ==
  {p \in Addrs \X (1 .. Cardinality(LinkNames)) :
     c.types[p[1]] = "H5O_TYPE_GROUP" /\ p[2] <= Len(c.links[p[1]])}

LinksTo(c, S, a) == {p \in LinkPlaces(c) : p[1] \in S /\ c.links[p[1]][p[2]].addr = a}

IsNode(c, a) == c.types[a] \in {"H5O_TYPE_GROUP", "H5O_TYPE_DATASET"}

\* the objects reachable from the root by a chain of links
RECURSIVE ReachFrom(_, _)
ReachFrom(c, S) ==
  LET N == S \cup {c.links[p[1]][p[2]].addr : p \in LinksTo(c, S, Root)}
               \cup UNION {{c.links[p[1]][p[2]].addr : p \in LinksTo(c, S, a)} :
                              a \in Addrs}
  IN IF N = S THEN S ELSE ReachFrom(c, N)

Reachable(c) == ReachFrom(c, {Root})

\* every group and dataset is reached by exactly one chain of links from the
\* root: no link leads to the root, and no two links lead to the same group
\* or dataset
IsTree(c) ==
  /\ LinksTo(c, Addrs, Root) = {}
  /\ \A a \in Addrs : IsNode(c, a) => Cardinality(LinksTo(c, Addrs, a)) <= 1

\* in a tree: "/" + link name, for every link of the chain from the root to a
RECURSIVE ChainPath(_, _)
ChainPath(c, a) ==
  IF a = Root THEN <<>>
  ELSE LET p == CHOOSE q \in LinksTo(c, Addrs, a) : TRUE
       IN ChainPath(c, p[1]) \o <<"/">> \o c.links[p[1]][p[2]].name

\* in a tree: the datasets below group g, depth-first, each level in link order
RECURSIVE DepthFirst(_, _, _)
DepthFirst(c, g, i) ==
  IF i > Len(c.links[g]) THEN <<>>
  ELSE LET a == c.links[g][i].addr
       IN (CASE c.types[a] = "H5O_TYPE_DATASET" -> <<a>>
             [] c.types[a] = "H5O_TYPE_GROUP" -> DepthFirst(c, a, 1)
             [] OTHER -> <<>>) \o DepthFirst(c, g, i + 1)

\* C1: in an acyclic hierarchy the finished walk has output every dataset
\* reachable from the root exactly once, the path output for a dataset is
\* "/" + link name concatenated along its chain from the root, and the
\* datasets come depth-first, each level in the native link order.
C1_TreeWalk ==
  (WalkDone /\ IsTree(container)) =>
     /\ \A a \in Reachable(container) :
           container.types[a] = "H5O_TYPE_DATASET" => Count(whist.emitted, a) = 1
     /\ Len(walker.datasets_) = Len(whist.emitted)
     /\ \A i \in DOMAIN walker.datasets_ :
           walker.datasets_[i] = ChainPath(container, whist.emitted[i])
     /\ whist.emitted = DepthFirst(container, Root, 1)

\* a finished walk of a tree that output a dataset two levels below the root
\* after leaving another group
C1_Witness ==
  /\ WalkDone
  /\ IsTree(container)
  /\ whist.entered # <<>>
  /\ \E i \in DOMAIN walker.datasets_ : Len(walker.datasets_[i]) >= 4

\* C2: on every object graph each group address is entered at most once and
\* the root never, so the recursive iterations are at most the groups other
\* than the root, the iterations in progress at most the groups, and the
\* calls of the callback at most the links of the container: the walk ends.
C2_EnteredOnce ==
  /\ NoDuplicates(whist.entered)
  /\ Root \notin Range(whist.entered)
  /\ Len(whist.entered) <= Cardinality(GroupsOf(container.types)) - 1
  /\ Len(walker.stack) <= Cardinality(GroupsOf(container.types))
  /\ whist.calls <= Cardinality(LinkPlaces(container))

\* a finished walk that entered a group which is linked from two places and
\* which links back to the root and to itself
C2_Witness ==
  /\ WalkDone
  /\ \E g \in Range(whist.entered) :
        /\ Cardinality(LinksTo(container, Addrs, g)) >= 2
        /\ LinksTo(container, {g}, g) # {}

OkStatus == [code |-> "OK", text |-> "", path |-> <<>>, names |-> <<>>, nums |-> <<>>]

InvalidArgument(text, path, names, nums) ==
  [code |-> "InvalidArgument", text |-> text, path |-> path, names |-> names,
   nums |-> nums]

Unimplemented(text, names) ==
  [code |-> "Unimplemented", text |-> text, path |-> <<>>, names |-> names,
   nums |-> <<>>]

\* the call did not return a status: the behaviour of the code is undefined
\* there (memory outside an object was written or read)
Undefined(text) ==
  [code |-> "undefined", text |-> text, path |-> <<>>, names |-> <<>>, nums |-> <<>>]

(***************************************************************************)
(* Storage types (H5::DataType) and their classification in Init.          *)
(* A type has a class, a size in bytes, a sign (integers), whether it is a *)
(* variable-length string, its string padding, and its members (compound:  *)
(* name, class and size of the member type; enumeration: name and value).  *)
(***************************************************************************)
TypeClasses ==
  {"H5T_INTEGER", "H5T_FLOAT", "H5T_STRING", "H5T_VLEN", "H5T_COMPOUND",
   "H5T_ENUM", "H5T_OPAQUE"}

MemberNames == {"r", "i", "FALSE", "TRUE", "MAYBE"}

NoMember == [name |-> "", value |-> 0, class |-> "", size |-> 0]

DataTypeOf(class, size, sign, members) ==
  [class |-> class, size |-> size, sign |-> sign, variable |-> FALSE,
   strpad |-> "H5T_STR_NULLTERM", members |-> members]

StringType(size, variable, strpad) ==
  [class |-> "H5T_STRING", size |-> size, sign |-> FALSE, variable |-> variable,
   strpad |-> strpad, members |-> <<>>]

\* sizeof(int): the buffer getMemberValue(ii, &value) writes to
SizeofInt == 4

\* DataTypeSize(DT_BOOL)
SizeofBool == 1

\* H5::EnumType::getMemberIndex(name): throws when no member has the name
HasMember(dt, name) == \E k \in DOMAIN dt.members : dt.members[k].name = name

MemberIndex(dt, name) ==
  (CHOOSE k \in DOMAIN dt.members : dt.members[k].name = name) - 1

\* H5::EnumType::nameOf(&value, 100): the name of the member with that value
NameOf(dt, value) ==
  dt.members[CHOOSE k \in DOMAIN dt.members : dt.members[k].value = value].name

\* index_false, index_true start at 0; the first getMemberIndex that throws
\* ends the try block
IndexFalse(dt) == IF HasMember(dt, "FALSE") THEN MemberIndex(dt, "FALSE") ELSE 0

IndexTrue(dt) ==
  IF HasMember(dt, "FALSE") /\ HasMember(dt, "TRUE")
  THEN MemberIndex(dt, "TRUE") ELSE 0

\* bool success of case H5T_ENUM
EnumIsBool(dt) ==
  /\ dt.size = 1 /\ dt.size = SizeofBool
  /\ Len(dt.members) = 2
  /\ IndexFalse(dt) = 0 /\ IndexTrue(dt) = 1
  /\ dt.members[1].value = 0 /\ dt.members[2].value = 1

\* string names = "[" + name + ", " + name ... + "]"
RECURSIVE EnumNamesFrom(_, _)
EnumNamesFrom(dt, ii) ==
  IF ii > Len(dt.members) THEN <<>>
  ELSE (IF ii # 1 THEN <<", ">> ELSE <<>>)
         \o <<NameOf(dt, dt.members[ii].value)>> \o EnumNamesFrom(dt, ii + 1)

EnumNames(dt) == <<"[">> \o EnumNamesFrom(dt, 1) \o <<"]">>

\* the outcomes of the loop that lists the names: getMemberValue copies
\* dt.size bytes to an int, which is undefined for a wider type
EnumFailure(dt) ==
  {[status |-> InvalidArgument("unsupported data class for enum: ", <<>>,
                               EnumNames(dt), <<>>),
    dtype |-> "DT_INVALID"]}
  \cup (IF dt.size > SizeofInt
        THEN {[status |-> Undefined("getMemberValue wrote past int value"),
               dtype |-> "DT_INVALID"]}
        ELSE {})

TypeOk(dtype) == {[status |-> OkStatus, dtype |-> dtype]}

TypeError(text, path, names, nums) ==
  {[status |-> InvalidArgument(text, path, names, nums), dtype |-> "DT_INVALID"]}

ClassifyInteger(dataset, dt) ==
  CASE dt.size = 1 -> TypeOk(IF dt.sign THEN "DT_INT8" ELSE "DT_UINT8")
    [] dt.size = 2 -> TypeOk(IF dt.sign THEN "DT_INT16" ELSE "DT_UINT16")
    [] dt.size = 4 -> TypeOk(IF dt.sign THEN "DT_INT32" ELSE "DT_UINT32")
    [] dt.size = 8 -> TypeOk(IF dt.sign THEN "DT_INT64" ELSE "DT_UINT64")
    [] OTHER -> TypeError("unsupported data type size for ", dataset, <<>>,
                          <<dt.size>>)

ClassifyFloat(dataset, dt) ==
  CASE dt.size = 4 -> TypeOk("DT_FLOAT")
    [] dt.size = 8 -> TypeOk("DT_DOUBLE")
    [] OTHER -> TypeError("unsupported data type size for ", dataset, <<>>,
                          <<dt.size>>)

\* complex_names_ is ("r", "i")
ClassifyCompound(dataset, dt) ==
  LET m == dt.members IN
  CASE Len(m) # 2 ->
         TypeError("unsupported compound members for ", dataset, <<>>, <<Len(m)>>)
    [] Len(m) = 2 /\ (m[1].name # "r" \/ m[2].name # "i") ->
         TypeError("unsupported compound member names for ", dataset,
                   <<m[1].name, ", ", m[2].name>>, <<>>)
    [] Len(m) = 2 /\ m[1].name = "r" /\ m[2].name = "i"
         /\ (m[1].class # m[2].class \/ m[1].size # m[2].size) ->
         TypeError("unsupported compound with different data type for ", dataset,
                   <<m[1].class, ", ", m[2].class>>, <<>>)
    [] Len(m) = 2 /\ m[1].name = "r" /\ m[2].name = "i"
         /\ m[1].class = m[2].class /\ m[1].size = m[2].size
         /\ m[1].class # "H5T_FLOAT" ->
         TypeError("unsupported compound with non-float data class for ", dataset,
                   <<m[1].class>>, <<>>)
    [] OTHER ->
         CASE m[1].size = 4 -> TypeOk("DT_COMPLEX64")
           [] m[1].size = 8 -> TypeOk("DT_COMPLEX128")
           [] OTHER -> TypeError("unsupported data type size for compound", dataset,
                                 <<>>, <<m[1].size>>)

ClassifyEnum(dataset, dt) ==
  IF EnumIsBool(dt) THEN TypeOk("DT_BOOL") ELSE EnumFailure(dt)

\* switch (data_type.getClass()) of Init: the outcomes for one dataset
Classify(dataset, dt) ==
  CASE dt.class = "H5T_INTEGER" -> ClassifyInteger(dataset, dt)
    [] dt.class = "H5T_FLOAT" -> ClassifyFloat(dataset, dt)
    [] dt.class = "H5T_STRING" -> TypeOk("DT_STRING")
    [] dt.class = "H5T_VLEN" -> TypeOk("DT_STRING")
    [] dt.class = "H5T_COMPOUND" -> ClassifyCompound(dataset, dt)
    [] dt.class = "H5T_ENUM" -> ClassifyEnum(dataset, dt)
    [] OTHER -> TypeError("unsupported data class for ", dataset, <<dt.class>>, <<>>)

(***************************************************************************)
(* The storage types of the model.                                         *)
(***************************************************************************)
TypeSizes == {1, 2, 4, 8, 16}

EnumMembers ==
  {[name |-> n, value |-> v, class |-> "", size |-> 0] :
     n \in {"FALSE", "TRUE", "MAYBE"}, v \in 0 .. MaxEnumValue}

\* member names and member values are unique within an enumeration type
EnumMemberSeqs ==
  {m \in UNION {[1 .. n -> EnumMembers] : n \in 1 .. MaxMembers} :
     \A j, k \in DOMAIN m :
       (m[j].name = m[k].name \/ m[j].value = m[k].value) => j = k}

EnumTypes ==
  {DataTypeOf("H5T_ENUM", sz, TRUE, m) : sz \in {1, 2, 4, 8}, m \in EnumMemberSeqs}

CompoundMembers ==
  {[name |-> n, value |-> 0, class |-> c, size |-> sz] :
     n \in {"r", "i"}, c \in {"H5T_FLOAT", "H5T_INTEGER"}, sz \in {4, 8, 16}}

CompoundTypes ==
  {DataTypeOf("H5T_COMPOUND", 16, FALSE, m) :
     m \in UNION {[1 .. n -> CompoundMembers] : n \in 1 .. 2}}

ScalarTypes ==
  {DataTypeOf(c, sz, sg, <<>>) :
     c \in {"H5T_INTEGER", "H5T_FLOAT", "H5T_OPAQUE"}, sz \in TypeSizes,
     sg \in BOOLEAN}
  \cup {StringType(4, v, p) : v \in BOOLEAN,
          p \in {"H5T_STR_NULLTERM", "H5T_STR_NULLPAD", "H5T_STR_SPACEPAD"}}
  \cup {DataTypeOf("H5T_VLEN", 16, FALSE, <<>>)}

StorageTypes == ScalarTypes \cup CompoundTypes \cup EnumTypes

SomePath == <<"/", "a">>

InitClassify ==
  /\ WalkIdle /\ CatalogIdle /\ ReadIdle /\ StrIdle /\ OpsIdle
  /\ typeIn \in StorageTypes
  /\ typeOut = NoOutcome

\* the classification of one dataset's storage type, as Init does it
ClassifyType ==
  /\ typeOut = NoOutcome
  /\ \E o \in Classify(SomePath, typeIn) : typeOut' = o
  /\ UNCHANGED <<typeIn, walkVars, catalogVars, readVars, strVars, opVars>>

NextClassify == ClassifyType

SpecClassify == InitClassify /\ [][NextClassify]_vars

\* what the claim says of an enumeration type
IsBoolEnumeration(dt) ==
  /\ dt.size = 1
  /\ Len(dt.members) = 2
  /\ dt.members[1].name = "FALSE" /\ dt.members[1].value = 0
  /\ dt.members[2].name = "TRUE" /\ dt.members[2].value = 1

Classified == typeOut.status.code # "none"

\* an enumeration classifies as Bool exactly when it is 1 byte wide and its
\* two members are FALSE = 0 and TRUE = 1 in that order
EnumBoolIff ==
  (Classified /\ typeIn.class = "H5T_ENUM") =>
     ((typeOut.status.code = "OK" /\ typeOut.dtype = "DT_BOOL")
        <=> IsBoolEnumeration(typeIn))

\* C9: an enumeration classifies as Bool exactly when it is 1 byte wide and
\* its two members are FALSE = 0 and TRUE = 1 in that order, and every other
\* enumeration fails with an error that lists all the member names.
C9_EnumBoolOrNamesListed ==
  (Classified /\ typeIn.class = "H5T_ENUM") =>
     /\ (typeOut.status.code = "OK" /\ typeOut.dtype = "DT_BOOL")
          <=> IsBoolEnumeration(typeIn)
     /\ ~IsBoolEnumeration(typeIn) =>
          /\ typeOut.status.code = "InvalidArgument"
          /\ \A k \in DOMAIN typeIn.members :
                typeIn.members[k].name \in Range(typeOut.status.names)

\* the same for the enumerations no wider than an int
EnumNarrowBoolOrNamesListed ==
  (Classified /\ typeIn.class = "H5T_ENUM" /\ typeIn.size <= SizeofInt) =>
     /\ (typeOut.status.code = "OK" /\ typeOut.dtype = "DT_BOOL")
          <=> IsBoolEnumeration(typeIn)
     /\ ~IsBoolEnumeration(typeIn) =>
          /\ typeOut.status.code = "InvalidArgument"
          /\ \A k \in DOMAIN typeIn.members :
                typeIn.members[k].name \in Range(typeOut.status.names)

(***************************************************************************)
(* HDF5ReadableResource: the catalog.                                      *)
(*   filename_, file_image_ : the container opened by the last Init; file  *)
(*                            is the container file_image_ holds           *)
(*   dtypes_, shapes_       : the type and the shape of every slot         *)
(*   columns_index_         : path -> slot                                 *)
(* A file is a container together with the storage type and the extents of *)
(* its datasets.                                                           *)
(***************************************************************************)
RECURSIVE SplitPath(_, _)
\* the names of a path "/n1/n2...": cur is the name being read
SplitPath(path, cur) ==
  IF path = <<>> THEN (IF cur = <<>> THEN <<>> ELSE <<cur>>)
  ELSE IF Head(path) = "/"
       THEN (IF cur = <<>> THEN <<>> ELSE <<cur>>) \o SplitPath(Tail(path), <<>>)
       ELSE SplitPath(Tail(path), Append(cur, Head(path)))

RECURSIVE FollowNames(_, _, _)
FollowNames(c, a, names) ==
  IF names = <<>> THEN a
  ELSE LET ls == c.links[a]
           k == CHOOSE j \in DOMAIN ls : ls[j].name = Head(names)
       IN FollowNames(c, ls[k].addr, Tail(names))

\* file->openDataSet(dataset): the object a path of the walk leads to
OpenDataSet(f, path) == FollowNames(f, Root, SplitPath(path, <<>>))

\* columns_index_[data.datasets_[i]] = i, for i = 0, 1, ...
IndexOf(old, datasets) ==
  [p \in DOMAIN old \cup Range(datasets) |->
     IF p \in Range(datasets)
     THEN (CHOOSE i \in DOMAIN datasets :
             datasets[i] = p /\ \A j \in DOMAIN datasets : datasets[j] = p => j <= i) - 1
     ELSE old[p]]

\* the loop over data.datasets_ of Init, from dataset i on: the resource and
\* the status Init ends with
RECURSIVE InitLoop(_, _, _, _)
InitLoop(f, res, datasets, i) ==
  IF i > Len(datasets)
  THEN {[res |-> [res EXCEPT !.columns_index_ = IndexOf(@, datasets)],
         status |-> OkStatus]}
  ELSE LET ds == f.dsets[OpenDataSet(f, datasets[i])]
       IN UNION {
            IF o.status.code = "OK"
            THEN InitLoop(f, [res EXCEPT !.dtypes_ = Append(@, o.dtype),
                                         !.shapes_ = Append(@, ds.dims)],
                          datasets, i + 1)
            ELSE {[res |-> res, status |-> o.status]} :
            o \in Classify(datasets[i], ds.dt)}

\* Init(input), where opening input gives the file f, or no file
InitOutcomes(res, input, f, opened) ==
  LET r == [res EXCEPT !.filename_ = input,
                       !.file_image_ = IF opened THEN "open" ELSE "null",
                       !.file = IF opened THEN f ELSE NoContainer]
  IN IF ~opened
     THEN {[res |-> r,
            status |-> InvalidArgument("unable to open hdf5 file: ", input, <<>>, <<>>)]}
     ELSE InitLoop(f, r, RunWalk(f, NewWalker(Root)).datasets_, 1)

\* Components(&components): the paths of the map, in no particular order
ComponentsOf(res) == DOMAIN res.columns_index_

\* Spec(component, &shape, &dtype)
SpecOf(res, component) ==
  IF component \notin DOMAIN res.columns_index_
  THEN [NoCall EXCEPT !.op = "Spec", !.arg = component,
          !.status = InvalidArgument("dataset  not found", component, <<>>, <<>>)]
  ELSE [NoCall EXCEPT !.op = "Spec", !.arg = component, !.status = OkStatus,
          !.shape = res.shapes_[res.columns_index_[component] + 1],
          !.dtype = res.dtypes_[res.columns_index_[component] + 1]]

(***************************************************************************)
(* The files of the model: a few shapes of container, every dataset with a *)
(* storage type and extents.                                               *)
(***************************************************************************)
FileName == <<"f", ".", "h", "5">>

GoodInt32 == DataTypeOf("H5T_INTEGER", 4, TRUE, <<>>)

GoodFloat64 == DataTypeOf("H5T_FLOAT", 8, FALSE, <<>>)

BadInt128 == DataTypeOf("H5T_INTEGER", 16, TRUE, <<>>)

BadEnum ==
  DataTypeOf("H5T_ENUM", 1, TRUE,
             <<[name |-> "FALSE", value |-> 0, class |-> "", size |-> 0],
               [name |-> "TRUE", value |-> 1, class |-> "", size |-> 0],
               [name |-> "MAYBE", value |-> 2, class |-> "", size |-> 0]>>)

CatalogTypes == {GoodInt32, GoodFloat64, BadInt128, BadEnum}

CatalogDims == {<<2>>, <<1, 2>>}

NoDataset == [dt |-> NoType, dims |-> <<>>]

Link(name, addr) == [name |-> name, addr |-> addr]

\* the objects 1 and 2 with the given types, the rest of the addresses unused
TypesOf(t1, t2) ==
  [a \in Addrs |-> CASE a = Root -> "H5O_TYPE_GROUP"
                     [] a = 1 -> t1
                     [] a = 2 -> t2
                     [] OTHER -> "H5O_TYPE_NAMED_DATATYPE"]

LinksOf(l0, l1) ==
  [a \in Addrs |-> CASE a = Root -> l0 [] a = 1 -> l1 [] OTHER -> <<>>]

CatalogGraphs ==
  { \* no dataset
    [types |-> TypesOf("H5O_TYPE_NAMED_DATATYPE", "H5O_TYPE_NAMED_DATATYPE"),
     links |-> LinksOf(<<>>, <<>>)],
    \* /a
    [types |-> TypesOf("H5O_TYPE_DATASET", "H5O_TYPE_NAMED_DATATYPE"),
     links |-> LinksOf(<<Link(<<"a">>, 1)>>, <<>>)],
    \* /a and /b
    [types |-> TypesOf("H5O_TYPE_DATASET", "H5O_TYPE_DATASET"),
     links |-> LinksOf(<<Link(<<"a">>, 1), Link(<<"b">>, 2)>>, <<>>)],
    \* /a/a in the group /a, and /b, the same dataset
    [types |-> TypesOf("H5O_TYPE_GROUP", "H5O_TYPE_DATASET"),
     links |-> LinksOf(<<Link(<<"a">>, 1), Link(<<"b">>, 2)>>,
                       <<Link(<<"a">>, 2)>>)] }

Files ==
  UNION {
    {[types |-> g.types, links |-> g.links,
      dsets |-> [a \in Addrs |-> IF g.types[a] = "H5O_TYPE_DATASET"
                                  THEN d[a] ELSE NoDataset]] :
       d \in [{a \in Addrs : g.types[a] = "H5O_TYPE_DATASET"} ->
               [dt : CatalogTypes, dims : CatalogDims]]} :
    g \in CatalogGraphs}

SpecPaths == {<<"/", "a">>, <<"/", "b">>, <<"/", "a", "/", "a">>, <<"/", "x">>}

(***************************************************************************)
(* The catalog as a state machine.  initlog is the history: the number of  *)
(* Init calls, the status of the last one, the resource before it, the     *)
(* paths its walk found, and the last Components or Spec call.             *)
(***************************************************************************)
InitCatalog ==
  /\ WalkIdle /\ TypeIdle /\ ReadIdle /\ StrIdle /\ OpsIdle
  /\ resource = NewResource
  /\ initlog = NewInitLog

Alive == initlog.status.code # "undefined"

InitCall ==
  /\ Alive
  /\ initlog.inits < MaxInits
  /\ \E f \in Files, opened \in BOOLEAN :
       \E o \in InitOutcomes(resource, FileName, f, opened) :
          /\ resource' = o.res
          /\ initlog' = [inits |-> initlog.inits + 1, status |-> o.status,
                         before |-> resource,
                         found |-> IF opened
                                   THEN RunWalk(f, NewWalker(Root)).datasets_
                                   ELSE <<>>,
                         call |-> NoCall, err |-> 0, failed |-> {}]
  /\ UNCHANGED <<walkVars, typeVars, readVars, strVars, opVars>>

ComponentsCall ==
  /\ Alive
  /\ initlog' = [initlog EXCEPT !.call =
                   [NoCall EXCEPT !.op = "Components", !.status = OkStatus,
                                  !.paths = ComponentsOf(resource)]]
  /\ UNCHANGED <<resource, walkVars, typeVars, readVars, strVars, opVars>>

SpecCall ==
  /\ Alive
  /\ \E component \in SpecPaths :
       initlog' = [initlog EXCEPT !.call = SpecOf(resource, component)]
  /\ UNCHANGED <<resource, walkVars, typeVars, readVars, strVars, opVars>>

NextCatalog == InitCall \/ ComponentsCall \/ SpecCall

SpecCatalog == InitCatalog /\ [][NextCatalog]_vars

InitFailed == initlog.status.code \notin {"none", "OK"}

\* C4: when Init returns an error, nothing of the index built during that
\* Init is retained: the type array, the shape array and the path map are as
\* they were before the call, and on a new catalog Components returns the
\* empty set and Spec fails for every path.
C4_InitAllOrNothing ==
  InitFailed =>
     /\ resource.dtypes_ = initlog.before.dtypes_
     /\ resource.shapes_ = initlog.before.shapes_
     /\ resource.columns_index_ = initlog.before.columns_index_
     /\ initlog.inits = 1 =>
          /\ initlog.call.op = "Components" => initlog.call.paths = {}
          /\ initlog.call.op = "Spec" => initlog.call.status.code # "OK"

\* what holds of a failed Init: the path map is untouched, so on a new
\* catalog Components returns the empty set and Spec fails for every path
InitFailedMapUntouched ==
  InitFailed =>
     /\ resource.columns_index_ = initlog.before.columns_index_
     /\ initlog.inits = 1 =>
          /\ initlog.call.op = "Components" => initlog.call.paths = {}
          /\ initlog.call.op = "Spec" => initlog.call.status.code # "OK"

(***************************************************************************)
(* HDF5ReadableResource::Read.                                             *)
(* A request is the component, the start vector and the requested shape;   *)
(* fault names the library call that raises, if one does, and allocated    *)
(* says whether allocate_func succeeds.  The result is the status Read     *)
(* returns, or the exception that leaves it, and the hyperslab selection   *)
(* (dims_start, dims) when one is built.                                   *)
(***************************************************************************)
Tuples(S, n) == UNION {[1 .. k -> S] : k \in 0 .. n}

\* the library calls of the try block, in the order Read makes them
Sites ==
  <<"openDataSet", "getDataType", "getSpace", "getSimpleExtentNdims",
    "getSimpleExtentDims", "DataSpace", "selectHyperslab", "read">>

\* the exception a library call raises when it fails
Throws(site) ==
  CASE site = "openDataSet" -> "FileIException"
    [] site \in {"getDataType", "getSpace", "read", "getStrType",
                 "vlenReclaim"} -> "DataSetIException"
    [] site = "copy" -> "std::bad_alloc"
    [] site \in {"getSimpleExtentNdims", "getSimpleExtentDims", "DataSpace",
                 "selectHyperslab"} -> "DataSpaceIException"
    [] OTHER -> "DataTypeIException"

\* x > d for a signed x with no conversion
HsizeGtSigned(x, d) == x > d

\* x > d for an int64 x and an hsize_t d: x is converted to the unsigned
\* type, so a negative x is greater than every extent
HsizeGt(x, d) == IF x < 0 THEN TRUE ELSE x > d

\* the first dimension the loop of Read rejects, 0 when it rejects none
FirstOut(start, shape, dims) ==
  LET out == {i \in DOMAIN dims :
                \/ HsizeGt(start[i], dims[i])
                \/ HsizeGt(start[i] + shape[i], dims[i])}
  IN IF out = {} THEN 0 ELSE CHOOSE i \in out : \A j \in out : i <= j

Returned(r, st) == [r EXCEPT !.status = st]

\* the catch clauses: a file or a dataset exception becomes a status with
\* filename_; any other exception leaves Read
Raised(res, r, site) ==
  LET e == Throws(site)
  IN IF e = "FileIException"
     THEN [r EXCEPT !.raised = e, !.status =
             InvalidArgument("unable to open dataset file ", res.filename_,
                             <<site>>, <<>>)]
     ELSE IF e = "DataSetIException"
     THEN [r EXCEPT !.raised = e, !.status =
             InvalidArgument("unable to process dataset file", res.filename_,
                             <<site>>, <<>>)]
     ELSE [r EXCEPT !.raised = e, !.escaped = TRUE]

RECURSIVE NumElements(_)
\* the number of elements of a shape: 1 for a shape of rank 0
NumElements(shape) ==
  IF shape = <<>> THEN 1 ELSE Head(shape) * NumElements(Tail(shape))

\* data_set.read(buffer, type, memory_space, data_space) has returned: it
\* has written one element per element of the selection
Transfer(r) == [r EXCEPT !.transferred = r.selected, !.returned = TRUE]

\* the storage type of the dataset at a path
DataTypeAt(res, component) ==
  res.file.dsets[OpenDataSet(res.file, component)].dt

NumericTypes ==
  {"DT_UINT8", "DT_UINT16", "DT_UINT32", "DT_UINT64", "DT_INT8", "DT_INT16",
   "DT_INT32", "DT_INT64", "DT_FLOAT", "DT_DOUBLE", "DT_COMPLEX64",
   "DT_COMPLEX128"}

\* a variable-length read, of strings (char*) or of H5T_VLEN (hvl_t): the
\* staging array is a unique_ptr, released on every way out of its scope;
\* the buffers the library allocates in read are released by vlenReclaim,
\* which is called after the copy loop only.  The copy loop builds strings,
\* which can raise std::bad_alloc.
ReadVariable(res, req, r) ==
  IF req.fault = "read"
  THEN Raised(res, [r EXCEPT !.staging = "released"], "read")
  ELSE IF req.fault = "copy"
  THEN Raised(res, [Transfer(r) EXCEPT !.staging = "released",
                                       !.vlen = "allocated"], "copy")
  ELSE IF req.fault = "vlenReclaim"
  THEN Raised(res, [Transfer(r) EXCEPT !.staging = "released",
                                       !.vlen = "allocated"], "vlenReclaim")
  ELSE Returned([Transfer(r) EXCEPT !.staging = "released",
                                    !.vlen = "reclaimed"], OkStatus)

\* a fixed-length string read: the staging buffer is a unique_ptr; the
\* decoding of its fields is DecodeFixed
ReadFixed(res, req, r, dt) ==
  IF req.fault = "getSize" THEN Raised(res, r, "getSize")
  ELSE IF req.fault = "read"
  THEN Raised(res, [r EXCEPT !.staging = "released"], "read")
  ELSE IF req.fault = "getStrpad"
  THEN Raised(res, [Transfer(r) EXCEPT !.staging = "released"], "getStrpad")
  ELSE IF dt.strpad = "H5T_STR_SPACEPAD"
  THEN Returned([Transfer(r) EXCEPT !.staging = "released"],
                InvalidArgument("string pad type not supported: ", <<>>,
                                <<dt.strpad>>, <<>>))
  ELSE Returned([Transfer(r) EXCEPT !.staging = "released"], OkStatus)

\* case DT_STRING: switch (data_type.getClass())
ReadString(res, req, r) ==
  LET dt == DataTypeAt(res, req.component)
  IN IF req.fault = "getClass" THEN Raised(res, r, "getClass")
     ELSE IF dt.class = "H5T_STRING"
     THEN (IF req.fault = "getStrType" THEN Raised(res, r, "getStrType")
           ELSE IF req.fault = "isVariableStr" THEN Raised(res, r, "isVariableStr")
           ELSE IF dt.variable THEN ReadVariable(res, req, r)
           ELSE ReadFixed(res, req, r, dt))
     ELSE IF dt.class = "H5T_VLEN" THEN ReadVariable(res, req, r)
     ELSE Returned(r, Unimplemented("data type class for bool not supported: ",
                                    <<dt.class>>))

\* switch (dtypes_[column_index])
ReadData(res, req, r) ==
  LET dtype == res.dtypes_[res.columns_index_[req.component] + 1]
  IN IF dtype \in NumericTypes
     THEN (IF req.fault = "read" THEN Raised(res, r, "read")
           ELSE Returned(Transfer(r), OkStatus))
     ELSE IF dtype = "DT_STRING" THEN ReadString(res, req, r)
     ELSE Returned(r, Unimplemented("data type class not supported yet: ",
                                    <<DataTypeAt(res, req.component).class>>))

\* the try block
ReadTry(res, req, r) ==
  LET ds == res.file.dsets[OpenDataSet(res.file, req.component)]
      rank == Len(ds.dims)
      out == FirstOut(req.start, req.shape, ds.dims)
  IN IF req.fault \in {"openDataSet", "getDataType", "getSpace"}
     THEN Raised(res, r, req.fault)
     ELSE IF Len(req.shape) = 0
     THEN ReadData(res, req, [r EXCEPT !.selected = NumElements(ds.dims)])
     ELSE IF req.fault = "getSimpleExtentNdims" THEN Raised(res, r, req.fault)
     ELSE IF rank # Len(req.shape)
     THEN Returned(r, InvalidArgument("rank does not match: ", <<>>, <<>>,
                                      <<rank, Len(req.shape)>>))
     ELSE IF req.fault = "getSimpleExtentDims" THEN Raised(res, r, req.fault)
     ELSE IF out # 0
     THEN Returned(r, InvalidArgument("dimension [] out of boundary", <<>>, <<>>,
                     <<out - 1, req.start[out], req.shape[out], ds.dims[out]>>))
     ELSE IF req.fault \in {"DataSpace", "selectHyperslab"}
     THEN Raised(res, r, req.fault)
     ELSE ReadData(res, req, [r EXCEPT !.built = TRUE,
                                       !.dims_start = req.start,
                                       !.dims = req.shape,
                                       !.selected = NumElements(req.shape)])

\* Read(component, start, shape, allocate_func)
ReadOf(res, req) ==
  LET r == [NoResult EXCEPT !.start = req.start, !.shape = req.shape]
  IN IF req.component \notin DOMAIN res.columns_index_
     THEN Returned(r, InvalidArgument("dataset  not found", req.component,
                                      <<>>, <<>>))
     ELSE IF ~req.allocated
     THEN Returned(r, [OkStatus EXCEPT !.code = "ResourceExhausted",
                                       !.text = "allocate_output"])
     ELSE ReadTry(res, req, [r EXCEPT !.value = NumElements(req.shape)])

\* Read, the results it can end with: a read that writes more elements than
\* the value holds writes past the output buffer
ReadOutcomes(res, req) ==
  LET r == ReadOf(res, req)
  IN {r} \cup IF r.transferred > r.value
               THEN {Returned(r, Undefined("write past the output buffer"))}
               ELSE {}

(***************************************************************************)
(* HDF5ReadableReadOp::ResourceKernel: the start and the stop vector are   *)
(* built from the input tensors, normalised against the shape input, and   *)
(* Read is called with the result.  stopdims is the rank of the stop       *)
(* tensor: the stop vector is allocated with that many entries.            *)
(***************************************************************************)
\* an index past the allocated length of the start or of the stop vector is
\* read or written
VectorOverrun(shape, start, stop, stopdims) ==
  \/ Len(start) > Len(shape)
  \/ Len(stop) > stopdims
  \/ Len(shape) > stopdims

\* the vectors after the two filling loops, every entry taken as stored
StartVector(shape, start) ==
  [i \in 1 .. Len(shape) |-> IF i <= Len(start) THEN start[i] ELSE 0]

StopVector(shape, stop) ==
  [i \in 1 .. Len(shape) |-> IF i <= Len(stop) THEN stop[i] ELSE shape[i]]

\* if (stop[i] < 0 || stop[i] > shape.dim_size(i)) stop[i] = shape.dim_size(i)
ClampStop(shape, stop) ==
  [i \in 1 .. Len(shape) |->
     IF stop[i] < 0 \/ stop[i] > shape[i] THEN shape[i] ELSE stop[i]]

\* if (start[i] > stop[i]) start[i] = stop[i]
ClampStart(start, stop) ==
  [i \in DOMAIN stop |-> IF start[i] > stop[i] THEN stop[i] ELSE start[i]]

\* ResourceKernel: the results it can end with
ReadOpOutcomes(res, req) ==
  LET stop == ClampStop(req.shape, StopVector(req.shape, req.stop))
      start == ClampStart(StartVector(req.shape, req.start), stop)
      shape == [i \in DOMAIN stop |-> stop[i] - start[i]]
      call == [req EXCEPT !.start = start, !.shape = shape]
  IN ReadOutcomes(res, call)
     \cup IF VectorOverrun(req.shape, req.start, req.stop, req.stopdims)
          THEN {Returned(NoResult, Undefined("vector index out of range"))}
          ELSE {}

(***************************************************************************)
(* Reads as a state machine: a catalog of one int32 dataset /a, a request, *)
(* its result.                                                             *)
(***************************************************************************)
Extents == 0 .. MaxDim

StartValues == -1 .. MaxDim

DatasetPath == <<"/", "a">>

ReadFile(dims) ==
  [types |-> TypesOf("H5O_TYPE_DATASET", "H5O_TYPE_NAMED_DATATYPE"),
   links |-> LinksOf(<<Link(<<"a">>, 1)>>, <<>>),
   dsets |-> [a \in Addrs |-> IF a = 1 THEN [dt |-> GoodInt32, dims |-> dims]
                              ELSE NoDataset]]

\* the catalog after Init on the file
Catalog(dims) ==
  (CHOOSE o \in InitOutcomes(NewResource, FileName, ReadFile(dims), TRUE) : TRUE).res

ReadComponents == {DatasetPath, <<"/", "x">>}

InitRead ==
  /\ WalkIdle /\ TypeIdle /\ StrIdle /\ OpsIdle
  /\ initlog = NewInitLog
  /\ \E dims \in Tuples(Extents, MaxRank) : resource = Catalog(dims)
  /\ readIn = NoRequest
  /\ readOut = NoResult

Requests(faults) ==
  {[NoRequest EXCEPT !.via = "Read", !.component = c, !.start = st,
                     !.shape = sh, !.fault = f, !.allocated = al] :
     c \in ReadComponents, sh \in Tuples(Extents, MaxRank),
     st \in Tuples(StartValues, MaxRank), f \in faults, al \in BOOLEAN}

\* a Read in which every library call succeeds
ReadCall ==
  /\ readIn = NoRequest
  /\ \E req \in Requests({"none"}) :
       /\ Len(req.start) = Len(req.shape)
       /\ readIn' = req
       /\ \E r \in ReadOutcomes(resource, req) : readOut' = r
  /\ UNCHANGED <<walkVars, typeVars, catalogVars, strVars, opVars>>

\* a Read in which a library call raises, if Read comes to it
ReadRaise ==
  /\ readIn = NoRequest
  /\ \E req \in Requests(Range(Sites)) :
       /\ Len(req.start) = Len(req.shape)
       /\ req.allocated
       /\ readIn' = req
       /\ \E r \in ReadOutcomes(resource, req) : readOut' = r
  /\ UNCHANGED <<walkVars, typeVars, catalogVars, strVars, opVars>>

NextRead == ReadCall \/ ReadRaise

SpecRead == InitRead /\ [][NextRead]_vars

\* the extents of the dataset of the catalog
DatasetDims == resource.file.dsets[1].dims

IsRankMismatch(st) ==
  st.code = "InvalidArgument" /\ st.text = "rank does not match: "

IsOutOfBounds(st) ==
  st.code = "InvalidArgument" /\ st.text = "dimension [] out of boundary"

\* what the claim says of dimension i
DimensionFails(i) ==
  \/ readIn.start[i] < 0
  \/ readIn.start[i] > DatasetDims[i]
  \/ readIn.start[i] + readIn.shape[i] > DatasetDims[i]

\* a direct Read of the indexed dataset with a shape of non-zero rank, in
\* which the allocation and the library calls succeed
DirectRead ==
  /\ readIn.via = "Read" /\ readIn.component = DatasetPath
  /\ readIn.allocated /\ readIn.fault = "none"
  /\ Len(readIn.shape) # 0

\* C6: a direct Read with a shape of non-zero rank fails with a rank
\* mismatch exactly when the requested rank differs from the dataset's rank,
\* otherwise fails as out of bounds exactly when some dimension has
\* start > dim or start + shape > dim, a negative start included; the
\* selection is built only when nothing fails and is the (start, shape)
\* pairs of the request, unclamped.
C6_StrictValidation ==
  DirectRead =>
     /\ IsRankMismatch(readOut.status) <=> Len(readIn.shape) # Len(DatasetDims)
     /\ Len(readIn.shape) = Len(DatasetDims) =>
          /\ IsOutOfBounds(readOut.status)
               <=> \E i \in DOMAIN DatasetDims : DimensionFails(i)
          /\ readOut.status.code = "OK"
               <=> \A i \in DOMAIN DatasetDims : ~DimensionFails(i)
     /\ readOut.built <=> readOut.status.code = "OK"
     /\ readOut.built =>
          /\ readOut.dims_start = readIn.start
          /\ readOut.dims = readIn.shape

\* a rank 2 read rejected for a negative start in its second dimension only
C6_Witness ==
  /\ DirectRead
  /\ Len(DatasetDims) = 2 /\ Len(readIn.shape) = 2
  /\ readIn.start[1] >= 0
  /\ readIn.start[1] + readIn.shape[1] <= DatasetDims[1]
  /\ readIn.start[2] < 0
  /\ readIn.start[2] + readIn.shape[2] <= DatasetDims[2]
  /\ IsOutOfBounds(readOut.status)
  /\ readOut.status.nums[1] = 1
  /\ ~readOut.built

\* C8: every library exception raised while Read opens or reads a dataset,
\* of whatever kind, becomes an InvalidArgument status that carries the
\* dataset path; no exception leaves Read.
C8_ExceptionsBecomeStatus ==
  readOut.raised # "none" =>
     /\ ~readOut.escaped
     /\ readOut.status.code = "InvalidArgument"
     /\ readOut.status.path = readIn.component

\* what holds of exceptions: a file or a dataset exception becomes an
\* InvalidArgument status, which carries the file name
FileAndDataSetExceptionsCaught ==
  readOut.raised \in {"FileIException", "DataSetIException"} =>
     /\ ~readOut.escaped
     /\ readOut.status.code = "InvalidArgument"
     /\ readOut.status.path = resource.filename_

(***************************************************************************)
(* Read requests through the op: the shape input is the shape of the       *)
(* dataset, start and stop have any length up to MaxRank.                  *)
(***************************************************************************)
StopValues == -1 .. MaxDim + 1

InitReadOp ==
  /\ WalkIdle /\ TypeIdle /\ StrIdle /\ OpsIdle
  /\ initlog = NewInitLog
  /\ \E dims \in Tuples(Extents, MaxRank) : resource = Catalog(dims)
  /\ readIn = NoRequest
  /\ readOut = NoResult

ReadOpCall ==
  /\ readIn = NoRequest
  /\ \E st \in Tuples(StartValues, MaxRank), sp \in Tuples(StopValues, MaxRank),
        sd \in 0 .. 1 :
       LET req == [NoRequest EXCEPT !.via = "ReadOp", !.component = DatasetPath,
                     !.shape = DatasetDims, !.start = st, !.stop = sp,
                     !.stopdims = sd, !.allocated = TRUE]
       IN /\ sd = 0 => Len(sp) = 1
          /\ readIn' = req
          /\ \E r \in ReadOpOutcomes(resource, req) : readOut' = r
  /\ UNCHANGED <<walkVars, typeVars, catalogVars, strVars, opVars>>

NextReadOp == ReadOpCall

SpecReadOp == InitReadOp /\ [][NextReadOp]_vars

\* what the claim says of the request: the stop and the start of dimension i
NormalStop(i) ==
  LET sp == IF i <= Len(readIn.stop) THEN readIn.stop[i] ELSE DatasetDims[i]
  IN IF sp < 0 \/ sp > DatasetDims[i] THEN DatasetDims[i] ELSE sp

NormalStart(i) ==
  LET st == IF i <= Len(readIn.start) THEN readIn.start[i] ELSE 0
  IN IF st > NormalStop(i) THEN NormalStop(i) ELSE st

\* C5: the op replaces a stop that is negative or past the extent by the
\* extent, then a start past the stop by the stop; the result shape is
\* stop - start, never negative, and the read returns that region without
\* error.
C5_NormalizeThenRead ==
  readIn.via = "ReadOp" =>
     /\ readOut.status.code = "OK"
     /\ readOut.start = [i \in DOMAIN DatasetDims |-> NormalStart(i)]
     /\ readOut.shape = [i \in DOMAIN DatasetDims |-> NormalStop(i) - NormalStart(i)]
     /\ \A i \in DOMAIN DatasetDims : readOut.shape[i] >= 0

\* what holds of the normalisation: when no vector is overrun and no start is
\* negative, the read returns the normalised region
NormalizeWithinVectors ==
  (/\ readIn.via = "ReadOp"
   /\ ~VectorOverrun(readIn.shape, readIn.start, readIn.stop, readIn.stopdims)
   /\ \A i \in DOMAIN readIn.start : readIn.start[i] >= 0) =>
     /\ readOut.status.code = "OK"
     /\ readOut.start = [i \in DOMAIN DatasetDims |-> NormalStart(i)]
     /\ readOut.shape = [i \in DOMAIN DatasetDims |-> NormalStop(i) - NormalStart(i)]
     /\ \A i \in DOMAIN DatasetDims : readOut.shape[i] >= 0

(***************************************************************************)
(* Read, case DT_STRING / H5T_STRING of fixed length: the staging buffer   *)
(* holds total fields of getSize() bytes; a byte is a number, 0 the zero   *)
(* byte.                                                                   *)
(***************************************************************************)
\* buffer.get() + data_type.getSize() * i
FieldAtStart(buffer, size, i) == SubSeq(buffer, 1, Len(buffer))

FieldAt(buffer, size, i) == SubSeq(buffer, size * i + 1, Len(buffer))

\* string(p, len)
StringOf(p, len) == SubSeq(p, 1, len)

RECURSIVE NullTermLen(_, _, _)
\* while (len < data_type.getSize() && p[len] != 0x00) len++
NullTermLen(p, size, len) ==
  IF len < size /\ p[len + 1] # 0 THEN NullTermLen(p, size, len + 1) ELSE len

RECURSIVE NullPadLen(_, _)
\* while (len > 0 && p[len - 1] == 0x00) len--
NullPadLen(p, len) ==
  IF len > 0 /\ p[len] = 0 THEN NullPadLen(p, len - 1) ELSE len

\* switch (getStrpad()), for the fields 0 .. total - 1
DecodeFixed(f) ==
  IF f.strpad = "H5T_STR_NULLTERM"
  THEN [status |-> OkStatus,
        values |-> [k \in 1 .. f.total |->
                      LET p == FieldAt(f.buffer, f.size, k - 1)
                      IN StringOf(p, NullTermLen(p, f.size, 0))]]
  ELSE IF f.strpad = "H5T_STR_NULLPAD"
  THEN [status |-> OkStatus,
        values |-> [k \in 1 .. f.total |->
                      LET p == FieldAt(f.buffer, f.size, k - 1)
                      IN StringOf(p, NullPadLen(p, f.size))]]
  ELSE [status |-> InvalidArgument("string pad type not supported: ", <<>>,
                                   <<f.strpad>>, <<>>),
        values |-> <<>>]

Bytes == {0, 97}

Strpads == {"H5T_STR_NULLTERM", "H5T_STR_NULLPAD", "H5T_STR_SPACEPAD"}

InitStr ==
  /\ WalkIdle /\ TypeIdle /\ CatalogIdle /\ ReadIdle /\ OpsIdle
  /\ \E size \in 1 .. MaxWidth, total \in 0 .. MaxElems :
       \E buffer \in [1 .. size * total -> Bytes], strpad \in Strpads :
          strIn = [size |-> size, strpad |-> strpad, buffer |-> buffer,
                   total |-> total]
  /\ strOut = NoStrings

DecodeStrings ==
  /\ strOut = NoStrings
  /\ strOut' = DecodeFixed(strIn)
  /\ UNCHANGED <<strIn, walkVars, typeVars, catalogVars, readVars, opVars>>

NextStr == DecodeStrings

SpecStr == InitStr /\ [][NextStr]_vars

Decoded == strOut.status.code = "OK"

\* bytes [k*w, (k+1)*w) of the staging buffer, k counted from 0
FieldBytes(k) == SubSeq(strIn.buffer, k * strIn.size + 1, (k + 1) * strIn.size)

IsPrefixOf(v, b) == Len(v) <= Len(b) /\ v = SubSeq(b, 1, Len(v))

\* v is the bytes of b before its first zero byte, or b if it has none
BeforeFirstZero(v, b) ==
  /\ IsPrefixOf(v, b)
  /\ \A j \in DOMAIN v : v[j] # 0
  /\ Len(v) < Len(b) => b[Len(v) + 1] = 0

\* v is b with its trailing zero bytes removed, and only those
TrailingZerosRemoved(v, b) ==
  /\ IsPrefixOf(v, b)
  /\ \A j \in Len(v) + 1 .. Len(b) : b[j] = 0
  /\ Len(v) > 0 => v[Len(v)] # 0

\* C10: element k of a fixed-length string read is decoded from bytes
\* [k*w, (k+1)*w) of the staging buffer: under null-terminated padding it is
\* the bytes before the first zero byte, or all w bytes if there is none;
\* under null padding it is the field with only its trailing zero bytes
\* removed, embedded zero bytes kept.
C10_FixedStringDecode ==
  (Decoded /\ strIn.strpad \in {"H5T_STR_NULLTERM", "H5T_STR_NULLPAD"}) =>
     /\ Len(strOut.values) = strIn.total
     /\ \A k \in 0 .. strIn.total - 1 :
          IF strIn.strpad = "H5T_STR_NULLTERM"
          THEN BeforeFirstZero(strOut.values[k + 1], FieldBytes(k))
          ELSE TrailingZerosRemoved(strOut.values[k + 1], FieldBytes(k))

\* two null-padded fields of width 3: the first all zero bytes, the second
\* "a\0a", which keeps its embedded zero byte
C10_Witness ==
  /\ Decoded
  /\ strIn.strpad = "H5T_STR_NULLPAD" /\ strIn.size = 3 /\ strIn.total = 2
  /\ strIn.buffer = <<0, 0, 0, 97, 0, 97>>
  /\ strOut.values = <<<<>>, <<97, 0, 97>>>>

(***************************************************************************)
(* The op kernels under threads.  Compute of an op takes the process-wide  *)
(* mutex mu and runs the kernel; the kernel calls methods of a catalog     *)
(* instance, each of which takes the mutex mu_ of the instance while it is *)
(* inside the container library.                                           *)
(***************************************************************************)
Threads == {"t1", "t2"}

Instances == {"r1", "r2"}

OpNames == {"HDF5ReadableInfoOp", "HDF5ReadableReadOp"}

\* the methods ResourceKernel of an op calls on its instance, in order
KernelMethods(op) ==
  IF op = "HDF5ReadableInfoOp" THEN <<"Components", "Spec">> ELSE <<"Read">>

\* IOResourceOpKernel::Compute: Init of the instance, then ResourceKernel
MethodsOf(op) == <<"Init">> \o KernelMethods(op)

IdleThread == [pc |-> "idle", op |-> "none", res |-> "none", todo |-> <<>>, calls |-> 0]

\* mutex_lock l(mu) returns without waiting for the holder
MuUnguarded(t) == TRUE

\* mutex_lock l(mu) returns when no thread holds mu
MuAvailable(t) == mu = NoThread

InitOps ==
  /\ WalkIdle /\ TypeIdle /\ CatalogIdle /\ ReadIdle /\ StrIdle
  /\ mu = NoThread
  /\ mu_ = [r \in Instances |-> NoThread]
  /\ thread = [t \in Threads |-> IdleThread]

\* a thread starts Compute of an op on an instance, and blocks on mu
ComputeCall(t) ==
  /\ thread[t].pc = "idle"
  /\ thread[t].calls < MaxCalls
  /\ \E op \in OpNames, r \in Instances :
       thread' = [thread EXCEPT ![t] =
                    [pc |-> "lock", op |-> op, res |-> r, todo |-> MethodsOf(op),
                     calls |-> @.calls + 1]]
  /\ UNCHANGED <<mu, mu_, walkVars, typeVars, catalogVars, readVars, strVars>>

\* mutex_lock l(mu)
ComputeLock(t) ==
  /\ thread[t].pc = "lock"
  /\ MuAvailable(t)
  /\ mu' = t
  /\ thread' = [thread EXCEPT ![t].pc = "compute"]
  /\ UNCHANGED <<mu_, walkVars, typeVars, catalogVars, readVars, strVars>>

\* the next method of the kernel: mutex_lock l(mu_), then the library
MethodEnter(t) ==
  /\ thread[t].pc = "compute"
  /\ thread[t].todo # <<>>
  /\ mu_[thread[t].res] = NoThread
  /\ mu_' = [mu_ EXCEPT ![thread[t].res] = t]
  /\ thread' = [thread EXCEPT ![t].pc = "inside"]
  /\ UNCHANGED <<mu, walkVars, typeVars, catalogVars, readVars, strVars>>

\* the method returns: mu_ is released
MethodReturn(t) ==
  /\ thread[t].pc = "inside"
  /\ mu_' = [mu_ EXCEPT ![thread[t].res] = NoThread]
  /\ thread' = [thread EXCEPT ![t].pc = "compute", ![t].todo = Tail(@)]
  /\ UNCHANGED <<mu, walkVars, typeVars, catalogVars, readVars, strVars>>

\* Compute returns: mu is released
ComputeReturn(t) ==
  /\ thread[t].pc = "compute"
  /\ thread[t].todo = <<>>
  /\ mu' = IF mu = t THEN NoThread ELSE mu
  /\ thread' = [thread EXCEPT ![t].pc = "idle", ![t].op = "none",
                              ![t].res = "none"]
  /\ UNCHANGED <<mu_, walkVars, typeVars, catalogVars, readVars, strVars>>

NextOps ==
  \E t \in Threads :
     \/ ComputeCall(t)
     \/ ComputeLock(t)
     \/ MethodEnter(t)
     \/ MethodReturn(t)
     \/ ComputeReturn(t)

SpecOps == InitOps /\ [][NextOps]_vars

InsideLibrary == {t \in DOMAIN thread : thread[t].pc = "inside"}

\* C7: no two executions of Init, Components, Spec and Read are inside the
\* container library at once, whichever the threads and the instances, and
\* each of them holds the process-wide lock mu for its whole duration.
C7_OneInsideLibrary ==
  /\ Cardinality(InsideLibrary) <= 1
  /\ \A t \in InsideLibrary : mu = t

\* a thread is inside the library on one instance while the other thread has
\* called an op on the other instance, whose mu_ is free, and waits for mu
C7_Witness ==
  \E t, u \in DOMAIN thread :
     /\ thread[t].pc = "inside" /\ thread[u].pc = "lock"
     /\ thread[t].res # thread[u].res
     /\ mu_[thread[u].res] = NoThread

(***************************************************************************)
(* The start and the stop vector of the op, by their allocated lengths.    *)
(***************************************************************************)
\* absl::InlinedVector<int64, 4> start(shape.dims())
StartAllocated(req) == Len(req.shape)

\* absl::InlinedVector<int64, 4> stop(stop_tensor->shape().dims())
StopAllocated(req) == req.stopdims

\* the indexes (from 0) the filling and the normalising loops use on start
StartIndexes(req) == 0 .. (Len(req.start) - 1) \cup 0 .. (Len(req.shape) - 1)

\* the indexes (from 0) the filling and the normalising loops use on stop
StopIndexes(req) == 0 .. (Len(req.stop) - 1) \cup 0 .. (Len(req.shape) - 1)

\* C11: in a read request for a dataset of rank R the start and the stop
\* vector get an entry for every dimension 0..R-1, a missing start being 0 and
\* a missing stop the extent, and no entry is read or written outside a
\* vector's allocated length, whatever the lengths of the supplied vectors.
C11_VectorsFilledWithinLength ==
  readIn.via = "ReadOp" =>
     /\ \A i \in StartIndexes(readIn) : i < StartAllocated(readIn)
     /\ \A i \in StopIndexes(readIn) : i < StopAllocated(readIn)
     /\ StartAllocated(readIn) = Len(DatasetDims)
     /\ StopAllocated(readIn) = Len(DatasetDims)
     /\ readOut.status.code # "undefined"

\* what holds of the filling: when no index passes a vector's length, a
\* missing start is 0 and a missing stop is the extent
FilledWithinVectors ==
  (/\ readIn.via = "ReadOp"
   /\ (\A i \in StartIndexes(readIn) : i < StartAllocated(readIn))
   /\ (\A i \in StopIndexes(readIn) : i < StopAllocated(readIn))) =>
     /\ ~VectorOverrun(readIn.shape, readIn.start, readIn.stop, readIn.stopdims)
     /\ readOut.status.code # "undefined"
     /\ \A i \in DOMAIN DatasetDims :
          /\ i > Len(readIn.start) =>
               StartVector(readIn.shape, readIn.start)[i] = 0
          /\ i > Len(readIn.stop) =>
               StopVector(readIn.shape, readIn.stop)[i] = DatasetDims[i]

(***************************************************************************)
(* The walk when H5Oget_info_by_name fails.  bad is the set of objects     *)
(* whose metadata cannot be read.  The callback does not look at err       *)
(* before the switch: iteminfo is not initialised, so the switch takes any *)
(* of its cases; then the callback returns err < 0, which ends every       *)
(* iteration in progress.  Init stores the result of H5Literate in err and *)
(* never reads it.                                                         *)
(***************************************************************************)
\* H5Oget_info_by_name(loc_id, name, &iteminfo, H5P_DEFAULT) < 0
QueryFails(c, w, bad) == AtLink(c, w) /\ CurLink(c, w).addr \in bad

\* switch (iteminfo.type) on the uninitialised iteminfo: the default case or
\* a named datatype, a dataset, or a group of an address g not seen yet,
\* whose iteration fails at once
FailedCallback(w, l) ==
  {w}
  \cup {[w EXCEPT !.datasets_ = Append(@, ChildPath(w, l.name))]}
  \cup {[w EXCEPT !.groups_ = (g :> ChildPath(w, l.name)) @@ @] :
          g \in Addrs \ DOMAIN w.groups_}

\* return err, up through every H5Literate_by_name in progress: each callback
\* restores parent_ and returns err in its turn
Unwind(w) ==
  [w EXCEPT !.stack = <<>>,
            !.parent_ = IF Len(w.stack) >= 2 THEN w.stack[2].saved ELSE @]

\* H5Literate(file->getId(), ...): the walkers it can end with, and its result
RECURSIVE RunWalkUnless(_, _, _)
RunWalkUnless(c, w, bad) ==
  IF w.stack = <<>> THEN {[w |-> w, err |-> 0]}
  ELSE IF QueryFails(c, w, bad)
  THEN {[w |-> Unwind(x), err |-> -1] : x \in FailedCallback(w, CurLink(c, w))}
  ELSE RunWalkUnless(c, IterateStep(c, w), bad)

\* the paths of datasets that lead to an object of bad
PathsTo(f, datasets, bad) ==
  {i \in DOMAIN datasets : OpenDataSet(f, datasets[i]) \in bad}

\* a library exception leaves Init, which has no try block
InitException == [NoStatus EXCEPT !.code = "exception", !.text = "openDataSet"]

\* the loop of Init over the datasets_ of a walk: file->openDataSet raises
\* for a path of datasets_ that leads to an object of bad
InitLoopUnless(f, r, datasets, bad) ==
  LET stops == PathsTo(f, datasets, bad)
      k == CHOOSE i \in stops : \A j \in stops : i <= j
  IN IF stops = {} THEN InitLoop(f, r, datasets, 1)
     ELSE {IF o.status.code = "OK"
           THEN [res |-> [o.res EXCEPT !.columns_index_ = r.columns_index_],
                 status |-> InitException]
           ELSE o :
             o \in InitLoop(f, r, SubSeq(datasets, 1, k - 1), 1)}

\* Init(input) on the file f, the metadata of the objects of bad unreadable
InitOutcomesUnless(res, input, f, bad) ==
  LET r == [res EXCEPT !.filename_ = input, !.file_image_ = "open", !.file = f]
  IN UNION {
       {[res |-> o.res, status |-> o.status, err |-> x.err,
         found |-> x.w.datasets_] :
          o \in InitLoopUnless(f, r, x.w.datasets_, bad)} :
       x \in RunWalkUnless(f, NewWalker(Root), bad)}

InitInitFault ==
  /\ WalkIdle /\ TypeIdle /\ ReadIdle /\ StrIdle /\ OpsIdle
  /\ resource = NewResource
  /\ initlog = NewInitLog

\* Init on a file in which some metadata queries fail
InitFaultCall ==
  /\ initlog.inits = 0
  /\ \E f \in Files, bad \in (SUBSET (Addrs \ {Root})) \ {{}} :
       \E o \in InitOutcomesUnless(resource, FileName, f, bad) :
          /\ resource' = o.res
          /\ initlog' = [inits |-> 1, status |-> o.status, before |-> resource,
                         found |-> o.found, call |-> NoCall, err |-> o.err,
                         failed |-> bad]
  /\ UNCHANGED <<walkVars, typeVars, readVars, strVars, opVars>>

NextInitFault == InitFaultCall \/ ComponentsCall \/ SpecCall

SpecInitFault == InitInitFault /\ [][NextInitFault]_vars

\* C12: when the metadata query of a linked object fails during the walk,
\* the walk reports failure and Init returns an error without building a
\* catalog; Init never returns success with an index of the datasets found
\* before the failure.
C12_QueryFailureFailsInit ==
  initlog.err < 0 =>
     /\ initlog.status.code \notin {"OK", "none"}
     /\ resource.columns_index_ = initlog.before.columns_index_
     /\ initlog.call.op = "Components" => initlog.call.paths = {}

\* what holds of a failed query: the walk reports it, and the paths found by
\* then are those of a walk of the whole file, in order, up to the failure
WalkReportsFailure ==
  initlog.inits = 1 =>
     /\ initlog.err < 0
          <=> \E x \in RunWalkUnless(resource.file, NewWalker(Root), initlog.failed) :
                 x.err < 0
     /\ \A i \in DOMAIN initlog.found :
          \/ initlog.found[i] = RunWalk(resource.file, NewWalker(Root)).datasets_[i]
          \/ OpenDataSet(resource.file, initlog.found[i]) \in initlog.failed

(***************************************************************************)
(* Reads by storage type: a catalog of one dataset /a of an integer, an    *)
(* enumeration, a string or a variable-length storage type, of extents up  *)
(* to MaxDim + 1.                                                          *)
(***************************************************************************)
StringTypes ==
  {StringType(2, v, p) : v \in BOOLEAN, p \in Strpads}
  \cup {DataTypeOf("H5T_VLEN", 16, FALSE, <<>>)}

FileOf(dt, dims) ==
  [ReadFile(dims) EXCEPT !.dsets[1].dt = dt]

CatalogOf(dt, dims) ==
  (CHOOSE o \in InitOutcomes(NewResource, FileName, FileOf(dt, dims), TRUE) : TRUE).res

BoolEnum ==
  DataTypeOf("H5T_ENUM", 1, TRUE,
             <<[name |-> "FALSE", value |-> 0, class |-> "", size |-> 0],
               [name |-> "TRUE", value |-> 1, class |-> "", size |-> 0]>>)

DatasetTypes == StringTypes \cup {GoodInt32, BoolEnum}

WideExtents == 0 .. MaxDim + 1

\* the calls of the string branches that can raise
StringSites ==
  <<"getClass", "getStrType", "isVariableStr", "getSize", "read", "copy",
    "getStrpad", "vlenReclaim">>

InitReadTyped ==
  /\ WalkIdle /\ TypeIdle /\ StrIdle /\ OpsIdle
  /\ initlog = NewInitLog
  /\ \E dt \in DatasetTypes, dims \in Tuples(WideExtents, MaxRank) :
       resource = CatalogOf(dt, dims)
  /\ readIn = NoRequest
  /\ readOut = NoResult

\* a Read of the dataset, in which one call can raise
ReadTypedCall ==
  /\ readIn = NoRequest
  /\ \E req \in Requests({"none"} \cup Range(StringSites)) :
       /\ Len(req.start) = Len(req.shape)
       /\ req.component = DatasetPath
       /\ req.allocated
       /\ readIn' = req
       /\ \E r \in ReadOutcomes(resource, req) : readOut' = r
  /\ UNCHANGED <<walkVars, typeVars, catalogVars, strVars, opVars>>

NextReadTyped == ReadTypedCall

SpecReadTyped == InitReadTyped /\ [][NextReadTyped]_vars

IsVariableLength(dt) ==
  (dt.class = "H5T_STRING" /\ dt.variable) \/ dt.class = "H5T_VLEN"

\* C13: on every way out of a Read of a variable-length string dataset, with
\* success, with an error status or with a failure raised between the
\* library read and the end of the copy loop, the staging array and the
\* buffers the library allocated for the read are released.
C13_VariableBuffersReleased ==
  (readIn.via = "Read" /\ IsVariableLength(DataTypeAt(resource, DatasetPath))) =>
     /\ readOut.staging \in {"none", "released"}
     /\ readOut.vlen \in {"none", "reclaimed"}

\* what holds of the buffers: the staging array is released on every way
\* out, and the library's buffers are reclaimed when Read returns OK
StagingReleased ==
  readIn.via = "Read" =>
     /\ readOut.staging \in {"none", "released"}
     /\ readOut.status.code = "OK" => readOut.vlen \in {"none", "reclaimed"}

(***************************************************************************)
(* The elements a Read transfers and the elements of its output value.     *)
(***************************************************************************)
\* C14: Read never writes more elements into the output buffer than it was
\* allocated with: for every requested shape, a shape of rank 0 on a dataset
\* of more than one element included, the number of elements the read
\* transfers is the number of elements of the value allocated for the
\* requested shape.
C14_TransferFitsValue ==
  (readIn.via = "Read" /\ readOut.returned) =>
     /\ readOut.value = NumElements(readIn.shape)
     /\ readOut.transferred = readOut.value
     /\ readOut.status.code # "undefined"

\* what holds of the transfer: with a requested shape of non-zero rank the
\* read transfers as many elements as the value holds
TransferFitsSelection ==
  (readIn.via = "Read" /\ readOut.returned /\ Len(readIn.shape) # 0) =>
     /\ readOut.value = NumElements(readIn.shape)
     /\ readOut.transferred = readOut.value
     /\ readOut.status.code # "undefined"

(***************************************************************************)
(* The index after one or more Init calls on one catalog instance.         *)
(***************************************************************************)
\* the canonical type Init gives the dataset at a path of the file
CanonicalType(f, path) ==
  (CHOOSE o \in Classify(path, f.dsets[OpenDataSet(f, path)].dt) :
     o.status.code = "OK").dtype

\* every path of the map is a dataset of the file f, and Spec gives it the
\* shape and the canonical type of that dataset
AlignedWith(res, f, paths) ==
  \A p \in DOMAIN res.columns_index_ :
     /\ p \in Range(paths)
     /\ SpecOf(res, p).status.code = "OK"
     /\ SpecOf(res, p).shape = f.dsets[OpenDataSet(f, p)].dims
     /\ SpecOf(res, p).dtype = CanonicalType(f, p)

SlotsWithinBounds ==
  \A p \in DOMAIN resource.columns_index_ :
     /\ resource.columns_index_[p] >= 0
     /\ resource.columns_index_[p] < Len(resource.dtypes_)
     /\ resource.columns_index_[p] < Len(resource.shapes_)

\* C15: after any sequence of Init calls on one catalog instance the index is
\* aligned with the container of the last successful Init: every slot of the
\* path map is within the shape and type arrays, and Spec(path) returns the
\* shape and the canonical type of the dataset at that path, not those of a
\* dataset appended by an earlier Init.
C15_SlotAligned ==
  /\ SlotsWithinBounds
  /\ initlog.status.code = "OK" =>
       AlignedWith(resource, resource.file, initlog.found)

\* what holds of the index: the slots are within the arrays, and after a
\* first Init that succeeds on a new catalog the index is aligned
FirstInitAligned ==
  /\ SlotsWithinBounds
  /\ (initlog.status.code = "OK" /\ initlog.inits = 1) =>
       AlignedWith(resource, resource.file, initlog.found)

====
